---- MODULE Spec2Model ----
(***************************************************************************)
(* Model of src/main.js: generateSpriteFromDirectory, the pipeline that    *)
(* scans a directory, reads each image's metadata, plans a uniform square  *)
(* grid, places every image row-major, writes <name>.png and then          *)
(* <name>.json.  One action per step between two awaits of the function.   *)
(***************************************************************************)
EXTENDS Integers, Sequences, FiniteSets

(* ---- bounds of the model ---- *)
\* entries of a directory whose files vary freely in extension and size
MaxFiles == 3
\* largest width and height of an image file
MaxDim == 2
\* largest --padding value
MaxPad == 1
\* largest --max-size value
MaxLimit == 6
\* entries of a directory holding only images of one size
MaxUniform == 16

(* ---- the inputs: the directory listing and the options ---- *)
\* extensions of the entries of a varied directory; ".PNG" is an image after
\* toLowerCase, ".txt" is none
Exts == {".PNG", ".txt"}

\* main.js:28
imageExtensions == {".png", ".jpg", ".jpeg", ".webp", ".gif"}

\* String.prototype.toLowerCase on the extensions that occur
toLowerCase(e) ==
    CASE e = ".PNG" -> ".png"
      [] e = ".JPG" -> ".jpg"
      [] OTHER -> e

\* a directory entry: its name (base and extension), and the pixel size its
\* content decodes to (0 for a file that is no image)
FileEntry(b, e, w, h) == [base |-> b, ext |-> e, width |-> w, height |-> h]

\* directory listings of n entries, free in extension and size; entry k has
\* base name k, so that names are distinct as in any directory
VariedDirs(n) ==
    { [k \in 1..n |-> FileEntry(k, f[k].ext, f[k].width, f[k].height)] :
        f \in { g \in [1..n -> [ext : Exts, width : 0..MaxDim, height : 0..MaxDim]] :
                  \A k \in 1..n :
                      IF toLowerCase(g[k].ext) \in imageExtensions
                      THEN g[k].width >= 1 /\ g[k].height >= 1
                      ELSE g[k].width = 0 /\ g[k].height = 0 } }

\* directory listings of n images that all have the same size, named
\* 1.png, 1.JPG, 2.png, 2.JPG, ...: two entries may share a base name, never a name
UniformDirs(n) ==
    { [k \in 1..n |-> FileEntry((k + 1) \div 2, IF k % 2 = 1 THEN ".png" ELSE ".JPG", w, h)] :
        w \in 1..MaxDim, h \in 1..MaxDim }

Directories ==
    UNION { VariedDirs(n) : n \in 0..MaxFiles }
    \cup UNION { UniformDirs(n) : n \in (MaxFiles + 1)..MaxUniform }

VARIABLES
    files,           \* fs.readdirSync(inputDir), in listing order
    padding,         \* options.padding
    maxSize,         \* options.maxSize
    pc,              \* position in generateSpriteFromDirectory
    err,             \* why the process exited with code 1, or "none"
    imagePaths,      \* the filtered, joined paths
    imagesMetadata,  \* the records collected so far
    imageCount, gridSize, maxCellWidth, maxCellHeight, spriteWidth, spriteHeight,
    sprite,          \* the blank canvas
    i,               \* index of the placement loop
    composites,      \* the overlay list handed to sharp
    positions,       \* filename -> {x, y, width, height}
    pngFile,         \* <name>.png as written, or NoFile
    jsonFile         \* <name>.json as written, or NoFile

vars == <<files, padding, maxSize, pc, err, imagePaths, imagesMetadata,
          imageCount, gridSize, maxCellWidth, maxCellHeight, spriteWidth,
          spriteHeight, sprite, i, composites, positions, pngFile, jsonFile>>

layoutVars == <<imageCount, gridSize, maxCellWidth, maxCellHeight, spriteWidth,
                spriteHeight, sprite>>
placeVars == <<i, composites, positions>>
inputVars == <<files, padding, maxSize>>

NoFile == [written |-> FALSE]
NoSprite == [created |-> FALSE]

Init ==
    /\ files \in Directories
    /\ padding \in 0..MaxPad
    /\ maxSize \in 1..MaxLimit
    /\ pc = "scan"
    /\ err = "none"
    /\ imagePaths = <<>>
    /\ imagesMetadata = <<>>
    /\ imageCount = 0 /\ gridSize = 0
    /\ maxCellWidth = 0 /\ maxCellHeight = 0
    /\ spriteWidth = 0 /\ spriteHeight = 0
    /\ sprite = NoSprite
    /\ i = 0
    /\ composites = <<>>
    /\ positions = <<>>
    /\ pngFile = NoFile
    /\ jsonFile = NoFile

(* ---- helpers: the expressions of the function ---- *)
\* fs.readdirSync(inputDir): the names of the entries, in listing order
readdirSync == [k \in DOMAIN files |-> [base |-> files[k].base, ext |-> files[k].ext]]

\* path.extname(file)
extname(file) == file.ext

\* path.join(inputDir, file)
join(dir, file) == [dir |-> dir, name |-> file]

\* mutant: the extension is dropped from the key
basenameNoExt(p) == p.name.base

\* path.basename(imgPath)
basename(p) == p.name

\* main.js:30, the filter's test
IsImageFile(file) == toLowerCase(extname(file)) \in imageExtensions

\* main.js:29-31
ScanPaths ==
    LET kept == SelectSeq(readdirSync, IsImageFile)
    IN  [k \in DOMAIN kept |-> join("inputDir", kept[k])]

\* mutant: the empty-input check is missing
IsEmptyInputNever(paths) == FALSE

\* main.js:33
IsEmptyInput(paths) == Len(paths) = 0

\* what sharp(imgPath).metadata() reads: the size of the file's content
Content(p) == CHOOSE e \in { files[k] : k \in DOMAIN files } :
                  [base |-> e.base, ext |-> e.ext] = p.name

\* main.js:54-60, the record pushed for imgPath (path and image handle are the path)
MetaRecord(p) ==
    [path |-> p, filename |-> basename(p),
     width |-> Content(p).width, height |-> Content(p).height]

\* Math.ceil(Math.sqrt(n)) on a count n >= 0.  Math.sqrt is correctly rounded,
\* so it is exact on perfect squares and never an integer otherwise (n < 2^52):
\* the ceiling is the integer root, plus one unless n is a perfect square.
RECURSIVE FloorSqrtFrom(_, _)
FloorSqrtFrom(n, r) == IF (r + 1) * (r + 1) > n THEN r ELSE FloorSqrtFrom(n, r + 1)

\* mutant: Math.floor in place of Math.ceil
GridSizeOfFloor(n) == FloorSqrtFrom(n, 0)

\* main.js:71
GridSizeOf(n) ==
    LET r == FloorSqrtFrom(n, 0)
    IN  IF r * r = n THEN r ELSE r + 1

\* Math.max(...list) on a non-empty list
RECURSIVE MathMax(_)
MathMax(s) ==
    IF Len(s) = 1 THEN s[1]
    ELSE LET m == MathMax(Tail(s)) IN IF s[1] > m THEN s[1] ELSE m

\* Math.min(...list) on a non-empty list
RECURSIVE MathMin(_)
MathMin(s) ==
    IF Len(s) = 1 THEN s[1]
    ELSE LET m == MathMin(Tail(s)) IN IF s[1] < m THEN s[1] ELSE m

\* mutant: the cell is sized to the narrowest image
CellWidthOfMin(metas, pad) == MathMin([k \in DOMAIN metas |-> metas[k].width]) + pad

\* main.js:73
CellWidthOf(metas, pad) == MathMax([k \in DOMAIN metas |-> metas[k].width]) + pad

\* mutant: the padding is left out of the cell height
CellHeightOfNoPad(metas, pad) == MathMax([k \in DOMAIN metas |-> metas[k].height])

\* main.js:74
CellHeightOf(metas, pad) == MathMax([k \in DOMAIN metas |-> metas[k].height]) + pad

\* main.js:75-76
SheetSide(g, cell) == g * cell

\* mutant: a sheet equal to the limit is rejected
SizeExceededOrEqual(w, h, limit) == w >= limit \/ h >= limit

\* main.js:78
SizeExceeded(w, h, limit) == w > limit \/ h > limit

\* mutant: the row is taken as the column is
RowOfMod(idx, g) == idx % g

\* main.js:114, for the 0-based index idx
RowOf(idx, g) == idx \div g

\* main.js:115
ColOf(idx, g) == idx % g

\* main.js:116
XOf(idx, g, cellW) == ColOf(idx, g) * cellW

\* main.js:117
YOf(idx, g, cellH) == RowOf(idx, g) * cellH

\* mutant: the entry records the cell size
PositionEntryCell(x, y, meta) ==
    [x |-> x, y |-> y, width |-> maxCellWidth, height |-> maxCellHeight]

\* main.js:126, the entry stored under the record's filename
PositionEntry(x, y, meta) == [x |-> x, y |-> y, width |-> meta.width, height |-> meta.height]

\* positions[key] = entry: a property assignment, which replaces an earlier value
SetProperty(obj, key, entry) ==
    [f \in (DOMAIN obj) \cup {key} |-> IF f = key THEN entry ELSE obj[f]]

\* main.js:139-145
JsonData ==
    [spriteWidth |-> spriteWidth, spriteHeight |-> spriteHeight,
     gridSize |-> gridSize, imageCount |-> imageCount, images |-> positions]

\* mutant: the failure is reported and the process is not exited
ExitNotTaken(kind) == pc' = pc /\ err' = kind

\* process.exit(1) after a reported failure: nothing of the function runs afterwards
Exit(kind) == pc' = "failed" /\ err' = kind

(* ---- actions ---- *)
\* main.js:23-38: create the output directory, list and filter the input directory
Scan ==
    /\ pc = "scan"
    /\ \/ \* mkdirSync or readdirSync throws: the outer catch, main.js:161-164
          /\ Exit("FsError")
          /\ UNCHANGED <<imagePaths>>
       \/ /\ imagePaths' = ScanPaths
          /\ IF IsEmptyInput(imagePaths')
             THEN Exit("EmptyInputSet")
             ELSE pc' = "collect" /\ err' = err
    /\ UNCHANGED <<inputVars, imagesMetadata, layoutVars, placeVars, pngFile, jsonFile>>

\* main.js:50-67: one iteration of the metadata loop, for the next path in order
CollectStep ==
    /\ pc = "collect"
    /\ Len(imagesMetadata) < Len(imagePaths)
    /\ LET imgPath == imagePaths[Len(imagesMetadata) + 1] IN
       \/ \* metadata() rejects: main.js:62-66
          /\ Exit("DecodeError")
          /\ UNCHANGED imagesMetadata
       \/ /\ imagesMetadata' = Append(imagesMetadata, MetaRecord(imgPath))
          /\ pc' = IF Len(imagesMetadata') = Len(imagePaths) THEN "plan" ELSE "collect"
          /\ err' = err
    /\ UNCHANGED <<inputVars, imagePaths, layoutVars, placeVars, pngFile, jsonFile>>

\* main.js:70-108: the layout, the size check and the blank canvas
Plan ==
    /\ pc = "plan"
    /\ imageCount' = Len(imagesMetadata)
    /\ gridSize' = GridSizeOf(imageCount')
    /\ maxCellWidth' = CellWidthOf(imagesMetadata, padding)
    /\ maxCellHeight' = CellHeightOf(imagesMetadata, padding)
    /\ spriteWidth' = SheetSide(gridSize', maxCellWidth')
    /\ spriteHeight' = SheetSide(gridSize', maxCellHeight')
    /\ IF SizeExceeded(spriteWidth', spriteHeight', maxSize)
       THEN Exit("SizeExceeded") /\ UNCHANGED sprite
       ELSE /\ sprite' = [created |-> TRUE, width |-> spriteWidth', height |-> spriteHeight']
            /\ pc' = "place" /\ err' = err
    /\ UNCHANGED <<inputVars, imagePaths, imagesMetadata, placeVars, pngFile, jsonFile>>

\* main.js:113-128: one iteration of the placement loop
PlaceStep ==
    /\ pc = "place"
    /\ i < imageCount
    /\ LET x == XOf(i, gridSize, maxCellWidth)
           y == YOf(i, gridSize, maxCellHeight)
           imgMeta == imagesMetadata[i + 1]
       IN  \/ \* toBuffer() rejects: the outer catch, main.js:161-164
              /\ Exit("BufferError")
              /\ UNCHANGED placeVars
           \/ /\ composites' = Append(composites, [input |-> imgMeta.path, left |-> x, top |-> y])
              /\ positions' = SetProperty(positions, imgMeta.filename, PositionEntry(x, y, imgMeta))
              /\ i' = i + 1
              /\ pc' = IF i' < imageCount THEN "place" ELSE "savePng"
              /\ err' = err
    /\ UNCHANGED <<inputVars, imagePaths, imagesMetadata, layoutVars, pngFile, jsonFile>>

\* main.js:134-136: compose and write <name>.png
WritePng ==
    /\ pc = "savePng"
    /\ \/ \* toFile() rejects: the outer catch, main.js:161-164
          /\ Exit("PngWriteError")
          /\ UNCHANGED pngFile
       \/ /\ pngFile' = [written |-> TRUE, width |-> sprite.width, height |-> sprite.height,
                          composites |-> composites]
          /\ pc' = "saveJson" /\ err' = err
    /\ UNCHANGED <<inputVars, imagePaths, imagesMetadata, layoutVars, placeVars, jsonFile>>

\* main.js:138-147: build the document and write <name>.json
WriteJson ==
    /\ pc = "saveJson"
    /\ \/ \* writeFileSync throws: the outer catch, main.js:161-164
          /\ Exit("JsonWriteError")
          /\ UNCHANGED jsonFile
       \/ /\ jsonFile' = [written |-> TRUE, data |-> JsonData]
          /\ pc' = "done" /\ err' = err
    /\ UNCHANGED <<inputVars, imagePaths, imagesMetadata, layoutVars, placeVars, pngFile>>

Next == Scan \/ CollectStep \/ Plan \/ PlaceStep \/ WritePng \/ WriteJson

Spec == Init /\ [][Next]_vars

\* the run has an exit reason exactly when the process exited with code 1
TypeOK ==
    /\ pc \in {"scan", "collect", "plan", "place", "savePng", "saveJson", "done", "failed"}
    /\ (pc = "failed") <=> (err # "none")

(* ---- properties ---- *)
\* the run has stopped: it completed, or the process exited with code 1
Stopped == pc \in {"done", "failed"}

\* the layout of main.js:70-76 has been computed
Planned ==
    \/ pc \in {"place", "savePng", "saveJson", "done"}
    \/ err \in {"SizeExceeded", "BufferError", "PngWriteError", "JsonWriteError"}

\* the records placed so far, as indices into imagesMetadata
Placed == 1..Len(composites)

Widths == { imagesMetadata[k].width : k \in DOMAIN imagesMetadata }
Heights == { imagesMetadata[k].height : k \in DOMAIN imagesMetadata }
Greatest(S) == CHOOSE m \in S : \A v \in S : v <= m

\* C1: wherever the run stops, <name>.png and <name>.json have both been
\* written or neither has.
OutputsAllOrNothing ==
    Stopped => (pngFile.written <=> jsonFile.written)

\* what the write order does guarantee: the JSON file is never there without
\* the PNG file.
JsonOnlyAfterPng == jsonFile.written => pngFile.written

\* C2: the run fails with SizeExceeded exactly when the sheet is wider or
\* taller than maxSize (a sheet equal to maxSize passes), and then neither
\* file is written.
SizeExceededExactly ==
    Planned =>
        /\ (err = "SizeExceeded") <=> (spriteWidth > maxSize \/ spriteHeight > maxSize)
        /\ err = "SizeExceeded" => ~pngFile.written /\ ~jsonFile.written /\ ~sprite.created

\* C2 witness: a sheet that fits in width and not in height is rejected.
SizeExceededByHeight ==
    /\ err = "SizeExceeded"
    /\ spriteWidth <= maxSize
    /\ spriteHeight > maxSize

\* a sheet exactly as large as the limit, in both directions, is written out
SheetEqualToLimitAccepted ==
    pc = "done" /\ spriteWidth = maxSize /\ spriteHeight = maxSize

\* C3: record i (0-based, input order) goes to row i div gridSize, column
\* i mod gridSize, at x = col * cellWidth, y = row * cellHeight; rows and
\* columns stay below gridSize and no two records share a cell.
PlacementRowMajor ==
    /\ \A k \in Placed :
          LET row == (k - 1) \div gridSize
              col == (k - 1) % gridSize
          IN  /\ composites[k].input = imagesMetadata[k].path
              /\ composites[k].left = col * maxCellWidth
              /\ composites[k].top = row * maxCellHeight
              /\ 0 <= row /\ row < gridSize
              /\ 0 <= col /\ col < gridSize
              /\ composites[k].left + maxCellWidth <= spriteWidth
              /\ composites[k].top + maxCellHeight <= spriteHeight
    /\ \A j, k \in Placed :
          j # k => <<composites[j].left, composites[j].top>>
                       # <<composites[k].left, composites[k].top>>

\* C3 witness: all nine cells of a 3 x 3 grid are assigned.
NineCellsAssigned ==
    /\ gridSize = 3
    /\ Len(composites) = 9
    /\ composites[9].left = 2 * maxCellWidth
    /\ composites[9].top = 2 * maxCellHeight

\* C4: gridSize is the least g with g * g >= n, for the n >= 1 records
\* collected: 1 for 1, 2 for 2..4, 3 for 5..9, 4 for 10..16.
GridSizeIsCeilSqrt ==
    Planned =>
        /\ imageCount = Len(imagesMetadata)
        /\ imageCount >= 1
        /\ gridSize >= 1
        /\ gridSize * gridSize >= imageCount
        /\ (gridSize - 1) * (gridSize - 1) < imageCount
        /\ imageCount = 1 => gridSize = 1
        /\ imageCount \in 2..4 => gridSize = 2
        /\ imageCount \in 5..9 => gridSize = 3
        /\ imageCount \in 10..16 => gridSize = 4

\* C4 witness: ten records give a grid of four.
TenImagesGridFour == Planned /\ imageCount = 10 /\ gridSize = 4

\* C5: the sheet is gridSize * (largest width + padding) wide and
\* gridSize * (largest height + padding) high, and these are the size of the
\* canvas, of the written PNG and of the document.
SheetDimensions ==
    Planned =>
        /\ spriteWidth = gridSize * (Greatest(Widths) + padding)
        /\ spriteHeight = gridSize * (Greatest(Heights) + padding)
        /\ sprite.created => sprite.width = spriteWidth /\ sprite.height = spriteHeight
        /\ pngFile.written => pngFile.width = spriteWidth /\ pngFile.height = spriteHeight
        /\ jsonFile.written =>
              /\ jsonFile.data.spriteWidth = spriteWidth
              /\ jsonFile.data.spriteHeight = spriteHeight

\* C5 witness: a document written for images of different sizes with padding.
PaddedSheetWritten ==
    /\ jsonFile.written
    /\ padding > 0
    /\ Cardinality(Widths) > 1
    /\ jsonFile.data.spriteWidth # jsonFile.data.spriteHeight

\* the records whose entry another record of the same filename replaced
Collapsed ==
    Len(imagesMetadata)
        - Cardinality({ imagesMetadata[k].filename : k \in DOMAIN imagesMetadata })

\* C6: in every document written, imageCount is the number of records minus
\* the collapsed ones, which is the number of entries of images.
ImageCountIsEntryCount ==
    jsonFile.written =>
        /\ jsonFile.data.imageCount = Len(imagesMetadata) - Collapsed
        /\ jsonFile.data.imageCount = Cardinality(DOMAIN jsonFile.data.images)

\* C6 witness: a document for a directory holding 1.png and 1.JPG, which
\* share a base name and not a filename.
SameBaseTwoEntries ==
    /\ jsonFile.written
    /\ \E j, k \in DOMAIN imagesMetadata :
          /\ j # k
          /\ imagesMetadata[j].filename.base = imagesMetadata[k].filename.base
          /\ imagesMetadata[j].filename \in DOMAIN jsonFile.data.images
          /\ imagesMetadata[k].filename \in DOMAIN jsonFile.data.images

\* the last record placed so far that carries the filename of record k
LastWith(k) ==
    CHOOSE j \in Placed :
        /\ imagesMetadata[j].filename = imagesMetadata[k].filename
        /\ \A m \in Placed :
              imagesMetadata[m].filename = imagesMetadata[k].filename => m <= j

\* C7: images holds one entry per filename placed, that of the last record
\* carrying the filename: x and y are its cell offset, width and height are
\* the record's own.
EntryOfLastRecord ==
    /\ DOMAIN positions = { imagesMetadata[k].filename : k \in Placed }
    /\ \A k \in Placed :
          LET fn == imagesMetadata[k].filename
              j == LastWith(k)
          IN  /\ fn \in DOMAIN positions
              /\ positions[fn] =
                    [x |-> ((j - 1) % gridSize) * maxCellWidth,
                     y |-> ((j - 1) \div gridSize) * maxCellHeight,
                     width |-> imagesMetadata[j].width,
                     height |-> imagesMetadata[j].height]
    /\ jsonFile.written => jsonFile.data.images = positions

\* C7 witness: a written entry whose width and height are smaller than the cell.
EntrySmallerThanCell ==
    /\ jsonFile.written
    /\ padding = 0
    /\ \E fn \in DOMAIN jsonFile.data.images :
          /\ jsonFile.data.images[fn].width < maxCellWidth
          /\ jsonFile.data.images[fn].height < maxCellHeight
          /\ jsonFile.data.images[fn].x > 0

\* no entry of the directory listing is an image file
NoImageListed ==
    \A k \in DOMAIN files : toLowerCase(files[k].ext) \notin imageExtensions

\* C8: when the scan finds no image, the run fails with the empty-input
\* error; nothing is decoded, no layout is computed, no file is written.
EmptyInputFails ==
    (pc # "scan" /\ err # "FsError" /\ NoImageListed) =>
        /\ pc = "failed"
        /\ err = "EmptyInputSet"
        /\ imagesMetadata = <<>>
        /\ imageCount = 0 /\ gridSize = 0 /\ spriteWidth = 0 /\ spriteHeight = 0
        /\ ~sprite.created
        /\ composites = <<>>
        /\ ~pngFile.written /\ ~jsonFile.written

\* C8 witness: a directory of files that are no images.
OnlyOtherFilesListed ==
    /\ err = "EmptyInputSet"
    /\ Len(files) >= 2
    /\ imagePaths = <<>>

\* the rectangle of the k-th record placed
Left(k) == composites[k].left
Top(k) == composites[k].top
Right(k) == composites[k].left + imagesMetadata[k].width
Bottom(k) == composites[k].top + imagesMetadata[k].height

\* C9: every image placed lies inside its cell and inside the sheet, and
\* the rectangles of two different records do not overlap.
ImagesInsideCellsDisjoint ==
    /\ \A k \in Placed :
          /\ imagesMetadata[k].width > 0 /\ imagesMetadata[k].height > 0
          /\ 0 <= Left(k) /\ 0 <= Top(k)
          /\ Right(k) <= Left(k) + maxCellWidth
          /\ Bottom(k) <= Top(k) + maxCellHeight
          /\ Right(k) <= spriteWidth
          /\ Bottom(k) <= spriteHeight
    /\ \A j, k \in Placed :
          j # k => \/ Right(j) <= Left(k) \/ Right(k) <= Left(j)
                   \/ Bottom(j) <= Top(k) \/ Bottom(k) <= Top(j)

\* C9 witness: images of different widths side by side, the first as wide
\* as its cell, all placed.
WideBesideNarrow ==
    /\ pc = "savePng"
    /\ padding = 0
    /\ Len(composites) >= 3
    /\ imagesMetadata[1].width = maxCellWidth
    /\ imagesMetadata[2].width < maxCellWidth
    /\ Right(1) = Left(2)

\* the stage that may follow a stage
StageSuccessors(stage) ==
    CASE stage = "scan" -> {"collect", "failed"}
      [] stage = "collect" -> {"collect", "plan", "failed"}
      [] stage = "plan" -> {"place", "failed"}
      [] stage = "place" -> {"place", "savePng", "failed"}
      [] stage = "savePng" -> {"saveJson", "failed"}
      [] stage = "saveJson" -> {"done", "failed"}
      [] OTHER -> {}

StageStep ==
    \* nothing runs once the process exited or the function returned
    /\ pc \notin {"done", "failed"} /\ err = "none"
    /\ pc' \in StageSuccessors(pc)
    \* a failure ends the run
    /\ err' # "none" <=> pc' = "failed"
    \* the listing is filtered once, by the scan
    /\ imagePaths' # imagePaths => pc = "scan"
    \* records are collected one at a time, in input order, and never on a failure
    /\ imagesMetadata' # imagesMetadata =>
          /\ pc = "collect" /\ pc' # "failed"
          /\ Len(imagesMetadata') = Len(imagesMetadata) + 1
          /\ SubSeq(imagesMetadata', 1, Len(imagesMetadata)) = imagesMetadata
          /\ imagesMetadata'[Len(imagesMetadata')].path = imagePaths[Len(imagesMetadata')]
    \* the layout is computed once, after the last record was collected
    /\ layoutVars' # layoutVars =>
          pc = "plan" /\ Len(imagesMetadata) = Len(imagePaths)
    \* placement follows the layout, one record at a time
    /\ placeVars' # placeVars =>
          pc = "place" /\ pc' # "failed" /\ Len(composites') = Len(composites) + 1
    \* the PNG is written after the last placement
    /\ pngFile' # pngFile =>
          pc = "savePng" /\ Len(composites) = imageCount /\ pngFile'.written
    \* the JSON is written after the PNG
    /\ jsonFile' # jsonFile =>
          pc = "saveJson" /\ pngFile.written /\ jsonFile'.written

\* C10: the stages run in the order scan, collection in input order, layout
\* and size check, placement, PNG write, JSON write; a failure ends the run
\* with no later stage executing; the JSON write follows a successful PNG write.
StagesInOrder == [][StageStep]_vars

\* C10 witness: the second of three images failed to decode; the third was
\* never read and no layout was computed.
DecodeFailureStopsRun ==
    /\ err = "DecodeError"
    /\ Len(imagePaths) = 3
    /\ Len(imagesMetadata) = 1
    /\ gridSize = 0
    /\ composites = <<>>
    /\ ~pngFile.written /\ ~jsonFile.written

====
